---- MODULE Spec2Model ----
(***************************************************************************)
(* Model of at502_performance_app.py: the AT-502B performance formulas,    *)
(* the @st.cache_data memo tables around them and the "Calculate           *)
(* Performance" handler of the Streamlit page.                             *)
(*                                                                         *)
(* Numbers.  The program computes in Python floats.  The model computes    *)
(* every operation exactly: a float literal is the decimal it is written   *)
(* as (0.07 is 7/100), + - * / are exact on rationals, and the two         *)
(* irrational operations (x ** 1.5 and np.sqrt) are kept in closed form as *)
(* c * sqrt(r).  Integers of any size are sequences of limbs, because the  *)
(* products of the formula chain do not fit a machine word.                *)
(***************************************************************************)
EXTENDS Integers, Sequences, FiniteSets, TLC

\* ---------------------------------------------------------------------------
\* Natural numbers of any size: little-endian limbs, no leading zero limb,
\* zero is the empty sequence.
\* ---------------------------------------------------------------------------
LimbBase == 10 * 1000

RECURSIVE BigOfNat(_)
BigOfNat(n) == IF n = 0 THEN << >> ELSE <<n % LimbBase>> \o BigOfNat(n \div LimbBase)

RECURSIVE BigStrip(_)
BigStrip(a) ==
    IF a = << >> THEN << >>
    ELSE IF a[Len(a)] = 0 THEN BigStrip(SubSeq(a, 1, Len(a) - 1))
    ELSE a

RECURSIVE BigAddC(_, _, _)
BigAddC(a, b, carry) ==
    IF a = << >> /\ b = << >> THEN (IF carry = 0 THEN << >> ELSE <<carry>>)
    ELSE LET x == IF a = << >> THEN 0 ELSE Head(a)
             y == IF b = << >> THEN 0 ELSE Head(b)
             t == x + y + carry
         IN  <<t % LimbBase>> \o BigAddC(IF a = << >> THEN a ELSE Tail(a),
                                         IF b = << >> THEN b ELSE Tail(b),
                                         t \div LimbBase)

BigAdd(a, b) == BigAddC(a, b, 0)

\* a - b for a >= b
RECURSIVE BigSubB(_, _, _)
BigSubB(a, b, borrow) ==
    IF a = << >> THEN << >>
    ELSE LET y == IF b = << >> THEN 0 ELSE Head(b)
             t == Head(a) - y - borrow
         IN  <<IF t < 0 THEN t + LimbBase ELSE t>>
             \o BigSubB(Tail(a), IF b = << >> THEN b ELSE Tail(b), IF t < 0 THEN 1 ELSE 0)

BigSub(a, b) == BigStrip(BigSubB(a, b, 0))

RECURSIVE BigMulLimb(_, _, _)
BigMulLimb(a, k, carry) ==
    IF a = << >> THEN (IF carry = 0 THEN << >> ELSE <<carry>>)
    ELSE LET t == Head(a) * k + carry
         IN  <<t % LimbBase>> \o BigMulLimb(Tail(a), k, t \div LimbBase)

RECURSIVE BigMul(_, _)
BigMul(a, b) ==
    IF a = << >> \/ b = << >> THEN << >>
    ELSE IF b = <<1>> THEN a
    ELSE IF a = <<1>> THEN b
    ELSE LET rest == BigMul(a, Tail(b))
             low  == IF Head(b) = 0 THEN << >> ELSE BigMulLimb(a, Head(b), 0)
         IN  BigAdd(low, IF rest = << >> THEN << >> ELSE <<0>> \o rest)

\* -1, 0, 1 as a < b, a = b, a > b
RECURSIVE BigCmpAt(_, _, _)
BigCmpAt(a, b, i) ==
    IF i = 0 THEN 0
    ELSE IF a[i] < b[i] THEN -1
    ELSE IF a[i] > b[i] THEN 1
    ELSE BigCmpAt(a, b, i - 1)

BigCmp(a, b) ==
    IF Len(a) < Len(b) THEN -1
    ELSE IF Len(a) > Len(b) THEN 1
    ELSE BigCmpAt(a, b, Len(a))

\* ---------------------------------------------------------------------------
\* Rationals: sign s in {-1, 0, 1}, numerator n and denominator d > 0 (not
\* reduced; compared by cross-multiplication).
\* ---------------------------------------------------------------------------
Abs(i) == IF i < 0 THEN -i ELSE i
Sgn(i) == IF i < 0 THEN -1 ELSE IF i > 0 THEN 1 ELSE 0

Frac(m, k) == [s |-> Sgn(m), n |-> BigOfNat(Abs(m)), d |-> BigOfNat(k)]
RatOf(i)   == Frac(i, 1)
RatZero    == RatOf(0)
RatOne     == RatOf(1)
RatHalf    == Frac(5, 10)

\* signed magnitudes (s1, a) + (s2, b) over a common denominator d
RatSum(s1, a, s2, b, d) ==
    IF s1 = 0 THEN [s |-> s2, n |-> b, d |-> d]
    ELSE IF s2 = 0 THEN [s |-> s1, n |-> a, d |-> d]
    ELSE IF s1 = s2 THEN [s |-> s1, n |-> BigAdd(a, b), d |-> d]
    ELSE LET c == BigCmp(a, b)
         IN  IF c = 0 THEN [s |-> 0, n |-> << >>, d |-> d]
             ELSE IF c = 1 THEN [s |-> s1, n |-> BigSub(a, b), d |-> d]
             ELSE [s |-> s2, n |-> BigSub(b, a), d |-> d]

RatAdd(x, y) ==
    IF x.d = y.d THEN RatSum(x.s, x.n, y.s, y.n, x.d)
    ELSE RatSum(x.s, BigMul(x.n, y.d), y.s, BigMul(y.n, x.d), BigMul(x.d, y.d))

RatNeg(x)    == [x EXCEPT !.s = -x.s]
RatSub(x, y) == RatAdd(x, RatNeg(y))
RatMul(x, y) == [s |-> x.s * y.s, n |-> BigMul(x.n, y.n), d |-> BigMul(x.d, y.d)]
\* x / y for y # 0
RatDiv(x, y) == [s |-> x.s * y.s, n |-> BigMul(x.n, y.d), d |-> BigMul(x.d, y.n)]

RatCmp(x, y) ==
    IF x.s # y.s THEN (IF x.s < y.s THEN -1 ELSE 1)
    ELSE IF x.s = 0 THEN 0
    ELSE IF x.d = y.d THEN x.s * BigCmp(x.n, y.n)
    ELSE x.s * BigCmp(BigMul(x.n, y.d), BigMul(y.n, x.d))

RatLe(x, y) == RatCmp(x, y) <= 0
RatLt(x, y) == RatCmp(x, y) < 0
RatEq(x, y) == RatCmp(x, y) = 0

\* ---------------------------------------------------------------------------
\* Values of the formula chain: c * sqrt(r) with c rational and r > 0
\* rational; a rational value has r = 1.
\* ---------------------------------------------------------------------------
\* the square of a value, a rational
RealSquare(v)  == RatMul(RatMul(v.c, v.c), v.r)

RealCmp(x, y) ==
    IF x.c.s # y.c.s THEN (IF x.c.s < y.c.s THEN -1 ELSE 1)
    ELSE IF x.c.s = 0 THEN 0
    ELSE IF x.r = y.r THEN RatCmp(x.c, y.c)
    ELSE x.c.s * RatCmp(RealSquare(x), RealSquare(y))

RealLe(x, y) == RealCmp(x, y) <= 0
RealLt(x, y) == RealCmp(x, y) < 0
RealEq(x, y) == RealCmp(x, y) = 0

\* ---------------------------------------------------------------------------
\* What a Python expression of the program yields: a real number
\* (kind "real"), a complex number (a negative base to the power 1.5; its
\* value is not tracked), numpy's nan (np.sqrt of a negative number) or a
\* raised exception; a returned tuple is kind "tuple".
\* ---------------------------------------------------------------------------
PyReal(c, r)  == [kind |-> "real", c |-> c, r |-> r]
PyNum(c)      == PyReal(c, RatOne)
PyInt(i)      == PyNum(RatOf(i))
PyComplex     == [kind |-> "complex"]
PyNan         == [kind |-> "nan"]
PyRaise(e)    == [kind |-> "raise", exc |-> e]
PyTuple(t)    == [kind |-> "tuple", items |-> t]
IsReal(v)     == v.kind = "real"

\* value * factor for a rational factor
PyMul(v, f) == IF IsReal(v) THEN PyReal(RatMul(v.c, f), v.r) ELSE v

\* base ** exponent for a rational base and the exponents the program uses
PyPow(base, exponent) ==
    IF RatEq(exponent, RatOne) THEN PyNum(base)
    ELSE IF RatEq(exponent, RatOf(-1))
         THEN (IF base.s = 0 THEN PyRaise("ZeroDivisionError")
               ELSE PyNum(RatDiv(RatOne, base)))
    ELSE \* 1.5: base * sqrt(base)
         IF base.s < 0 THEN PyComplex
         ELSE IF base.s = 0 THEN PyNum(RatZero)
         ELSE PyReal(base, base)

\* np.sqrt(x) for a rational x
PySqrt(x) ==
    IF x.s < 0 THEN PyNan
    ELSE IF x.s = 0 THEN PyNum(RatZero)
    ELSE PyReal(RatOne, x)

\* a * b for two values (b the result of ** or sqrt)
PyMulVal(a, b) ==
    IF ~IsReal(b) THEN b
    ELSE IF ~IsReal(a) THEN a
    ELSE IF a.r = RatOne THEN PyReal(RatMul(a.c, b.c), b.r)
    ELSE PyReal(RatMul(a.c, b.c), RatMul(a.r, b.r))

\* order and equality of two real values
PyLe(x, y) == RealLe(x, y)
PyLt(x, y) == RealLt(x, y)
PyEq(x, y) == RealEq(x, y)

\* ---------------------------------------------------------------------------
\* Constants - Air Tractor AT-502B base data
\* ---------------------------------------------------------------------------
BASE_TAKEOFF_GROUND_ROLL_FT == 1140
BASE_TAKEOFF_TO_50FT_FT     == 2600
BASE_LANDING_GROUND_ROLL_FT == 600
BASE_LANDING_TO_50FT_FT     == 1350
BASE_CLIMB_RATE_FPM         == 870
BASE_STALL_FLAPS_DOWN_MPH   == 68
BASE_EMPTY_WEIGHT_LBS       == 4546
MAX_TAKEOFF_WEIGHT_LBS      == 9400
MAX_LANDING_WEIGHT_LBS      == 8000
GLIDE_RATIO                 == RatOf(8)

RUNWAY_CONDITION_FACTORS ==
    [c \in {"Dry hard surface", "Wet hard surface", "Standing water", "Grass",
            "Dirt or gravel", "Rough with potholes", "Poor surface"} |->
        CASE c = "Dry hard surface"    -> Frac(100, 100)
          [] c = "Wet hard surface"    -> Frac(125, 100)
          [] c = "Standing water"      -> Frac(160, 100)
          [] c = "Grass"               -> Frac(170, 100)
          [] c = "Dirt or gravel"      -> Frac(115, 100)
          [] c = "Rough with potholes" -> Frac(155, 100)
          [] c = "Poor surface"        -> Frac(140, 100)]

\* ---------------------------------------------------------------------------
\* Helper functions.  Arguments are rationals, values are Py values.
\* ---------------------------------------------------------------------------
calculate_density_altitude(pressure_alt_ft, oat_c) ==
    LET isa_temp_c == RatSub(RatOf(15),
                             RatDiv(RatMul(RatOf(2), pressure_alt_ft), RatOf(1000)))
        da == RatAdd(pressure_alt_ft, RatMul(RatOf(120), RatSub(oat_c, isa_temp_c)))
    IN  da

adjust_for_weight(value, current_weight, base_weight, exponent) ==
    PyMulVal(value, PyPow(RatDiv(current_weight, base_weight), exponent))

\* mutant of wind_factor: the floor of 0.5 left out
wind_factor_no_floor(wind_kts) ==
    RatSub(RatOne, RatDiv(RatMul(Frac(1, 10), wind_kts), RatOf(9)))

\* the factor adjust_for_wind multiplies by
wind_factor(wind_kts) ==
    LET factor == RatSub(RatOne, RatDiv(RatMul(Frac(1, 10), wind_kts), RatOf(9)))
    IN  IF RatLt(factor, RatHalf) THEN RatHalf ELSE factor

adjust_for_wind(value, wind_kts) == PyMul(value, wind_factor(wind_kts))

\* mutant of da_factor: the penalty subtracted instead of added
da_factor_subtracted(da_ft) ==
    RatSub(RatOne, RatDiv(RatMul(Frac(7, 100), da_ft), RatOf(1000)))

\* mutant of da_factor: 0.7 written for 0.07
da_factor_tenfold(da_ft) ==
    RatAdd(RatOne, RatDiv(RatMul(Frac(7, 10), da_ft), RatOf(1000)))

\* the factor adjust_for_da multiplies by
da_factor(da_ft) == RatAdd(RatOne, RatDiv(RatMul(Frac(7, 100), da_ft), RatOf(1000)))

adjust_for_da(value, da_ft) == PyMul(value, da_factor(da_ft))

\* mutant of runway_factor: an unknown label falls back to 1.00
runway_factor_default_one(condition) ==
    IF condition \in DOMAIN RUNWAY_CONDITION_FACTORS
    THEN RUNWAY_CONDITION_FACTORS[condition]
    ELSE Frac(100, 100)

\* RUNWAY_CONDITION_FACTORS.get(condition, 1.40)
runway_factor(condition) ==
    IF condition \in DOMAIN RUNWAY_CONDITION_FACTORS
    THEN RUNWAY_CONDITION_FACTORS[condition]
    ELSE Frac(140, 100)

adjust_for_runway_condition(value, condition) == PyMul(value, runway_factor(condition))

\* ---------------------------------------------------------------------------
\* Performance calculations: the bodies of the cached functions.
\* ---------------------------------------------------------------------------
Exp15     == Frac(15, 10)
ExpLinear == Frac(10, 10)
ExpInv    == RatOf(-1)

\* mutant of takeoff_chain: the landing weight taken as the base weight
takeoff_chain_landing_base(base_ft, da_ft, weight_lbs, wind_kts, runway_condition) ==
    adjust_for_runway_condition(
        adjust_for_wind(
            adjust_for_da(
                adjust_for_weight(PyInt(base_ft), weight_lbs,
                                  RatOf(MAX_LANDING_WEIGHT_LBS), Exp15),
                da_ft),
            wind_kts),
        runway_condition)

takeoff_chain(base_ft, da_ft, weight_lbs, wind_kts, runway_condition) ==
    adjust_for_runway_condition(
        adjust_for_wind(
            adjust_for_da(
                adjust_for_weight(PyInt(base_ft), weight_lbs,
                                  RatOf(MAX_TAKEOFF_WEIGHT_LBS), Exp15),
                da_ft),
            wind_kts),
        runway_condition)

compute_takeoff(pressure_alt_ft, oat_c, weight_lbs, wind_kts, runway_condition) ==
    LET da_ft == calculate_density_altitude(pressure_alt_ft, oat_c)
        ground_roll == takeoff_chain(BASE_TAKEOFF_GROUND_ROLL_FT, da_ft, weight_lbs,
                                     wind_kts, runway_condition)
        to_50ft == takeoff_chain(BASE_TAKEOFF_TO_50FT_FT, da_ft, weight_lbs,
                                 wind_kts, runway_condition)
    IN  PyTuple(<<ground_roll, to_50ft>>)

\* mutant of landing_weight: the clamp left out
landing_weight_unclamped(weight_lbs) == weight_lbs

\* min(weight_lbs, MAX_LANDING_WEIGHT_LBS)
landing_weight(weight_lbs) ==
    IF RatLt(RatOf(MAX_LANDING_WEIGHT_LBS), weight_lbs)
    THEN RatOf(MAX_LANDING_WEIGHT_LBS) ELSE weight_lbs

landing_chain(base_ft, da_ft, weight_lbs, wind_kts, runway_condition) ==
    adjust_for_runway_condition(
        adjust_for_wind(
            adjust_for_da(
                adjust_for_weight(PyInt(base_ft), weight_lbs,
                                  RatOf(MAX_LANDING_WEIGHT_LBS), ExpLinear),
                da_ft),
            wind_kts),
        runway_condition)

compute_landing(pressure_alt_ft, oat_c, weight_lbs, wind_kts, runway_condition) ==
    LET w == landing_weight(weight_lbs)
        da_ft == calculate_density_altitude(pressure_alt_ft, oat_c)
        ground_roll == landing_chain(BASE_LANDING_GROUND_ROLL_FT, da_ft, w,
                                     wind_kts, runway_condition)
        from_50ft == landing_chain(BASE_LANDING_TO_50FT_FT, da_ft, w,
                                   wind_kts, runway_condition)
    IN  PyTuple(<<ground_roll, from_50ft>>)

\* max(climb, 0)
floor_at_zero(climb) ==
    IF IsReal(climb) /\ climb.c.s < 0 THEN PyInt(0) ELSE climb

compute_climb_rate(pressure_alt_ft, oat_c, weight_lbs) ==
    LET da_ft == calculate_density_altitude(pressure_alt_ft, oat_c)
        climb0 == adjust_for_weight(PyInt(BASE_CLIMB_RATE_FPM), weight_lbs,
                                    RatOf(MAX_TAKEOFF_WEIGHT_LBS), ExpInv)
        climb == PyMul(climb0,
                       RatSub(RatOne, RatDiv(RatMul(Frac(5, 100), da_ft), RatOf(1000))))
    IN  floor_at_zero(climb)

\* mutant of compute_stall_speed: the ratio inverted
compute_stall_speed_inverted(weight_lbs) ==
    PyMulVal(PyInt(BASE_STALL_FLAPS_DOWN_MPH),
             PySqrt(RatDiv(RatOf(MAX_LANDING_WEIGHT_LBS), weight_lbs)))

compute_stall_speed(weight_lbs) ==
    PyMulVal(PyInt(BASE_STALL_FLAPS_DOWN_MPH),
             PySqrt(RatDiv(weight_lbs, RatOf(MAX_LANDING_WEIGHT_LBS))))

compute_glide_distance(height_ft, wind_kts) ==
    LET ground_speed_mph == RatAdd(RatOf(100), wind_kts)
        glide_distance_nm == RatMul(RatMul(RatDiv(height_ft, RatOf(6076)), GLIDE_RATIO),
                                    RatDiv(ground_speed_mph, RatOf(60)))
    IN  PyNum(glide_distance_nm)

\* mutant of compute_weight_balance: < for <= at the max takeoff weight
compute_weight_balance_strict(empty_weight_lbs, fuel_gal, hopper_gal, pilot_weight_lbs) ==
    LET fuel_weight   == RatMul(fuel_gal, Frac(60, 10))
        hopper_weight == RatMul(hopper_gal, Frac(80, 10))
        total_weight  == RatAdd(RatAdd(RatAdd(empty_weight_lbs, fuel_weight),
                                       hopper_weight), pilot_weight_lbs)
        status0 == IF RatLt(total_weight, RatOf(MAX_TAKEOFF_WEIGHT_LBS))
                   THEN <<"Within limits">> ELSE <<"Overweight!">>
        status  == IF RatLt(RatOf(MAX_LANDING_WEIGHT_LBS), total_weight)
                   THEN Append(status0, " (Exceeds max landing weight)")
                   ELSE status0
    IN  PyTuple(<<PyNum(total_weight), status>>)

\* the status is the sequence of the pieces concatenated
compute_weight_balance(empty_weight_lbs, fuel_gal, hopper_gal, pilot_weight_lbs) ==
    LET fuel_weight   == RatMul(fuel_gal, Frac(60, 10))
        hopper_weight == RatMul(hopper_gal, Frac(80, 10))
        total_weight  == RatAdd(RatAdd(RatAdd(empty_weight_lbs, fuel_weight),
                                       hopper_weight), pilot_weight_lbs)
        status0 == IF RatLe(total_weight, RatOf(MAX_TAKEOFF_WEIGHT_LBS))
                   THEN <<"Within limits">> ELSE <<"Overweight!">>
        status  == IF RatLt(RatOf(MAX_LANDING_WEIGHT_LBS), total_weight)
                   THEN Append(status0, " (Exceeds max landing weight)")
                   ELSE status0
    IN  PyTuple(<<PyNum(total_weight), status>>)

\* ---------------------------------------------------------------------------
\* State.
\*   call    the last call of a function of the program: its name and arguments
\*   ret     what that call returned (or raised)
\*   cache   the st.cache_data table of each cached function: its entries
\*   shown   the calls the last "Calculate Performance" run made, in order,
\*           each with the value it got and whether the table supplied it
\*   presses the number of "Calculate Performance" runs so far
\* ---------------------------------------------------------------------------
VARIABLES call, ret, cache, shown, presses

vars == <<call, ret, cache, shown, presses>>

CachedFunctions == {"compute_takeoff", "compute_landing", "compute_climb_rate",
                    "compute_stall_speed", "compute_glide_distance",
                    "compute_weight_balance"}

NoCall  == [fn |-> "none", args |-> << >>]
Nothing == [kind |-> "none"]
EmptyCache == [f \in CachedFunctions |-> {}]

\* ---------------------------------------------------------------------------
\* Inputs.  The form's number_input ranges, sampled at Grid + 1 points from
\* the minimum to the maximum together with the default, and values outside
\* the form for the calls made directly.
\* ---------------------------------------------------------------------------
Grid == 2
WindSpan == 60

Samples(lo, hi) == {lo + ((hi - lo) * i) \div Grid : i \in 0..Grid}

FormPressureAlts == Samples(0, 20000) \cup {0}
FormOats         == Samples(-30, 50) \cup {15}
FormWeights      == Samples(4000, 9400) \cup {9400}
FormWinds        == Samples(-20, 20) \cup {0}
FormFuels        == Samples(0, 170) \cup {170}
FormHoppers      == Samples(0, 500) \cup {0}
FormPilots       == 100..300
FormGlideHeights == Samples(0, 15000) \cup {1000}
FormConditions   == DOMAIN RUNWAY_CONDITION_FACTORS
\* the weights the form's step of 50 reaches
FormWeightSteps  == {4000 + 50 * i : i \in 0..108}

ExtremePressureAlts == {-2000, 60000}
ExtremeOats         == {-150, 120}
ExtremeWeights      == {-9400, 0, 12000}
HeavyWeights        == {MAX_LANDING_WEIGHT_LBS, MAX_LANDING_WEIGHT_LBS + 1,
                        MAX_LANDING_WEIGHT_LBS + 1000, 12000}
StrongHeadwinds     == {44, 45, 46}
OtherConditions     == {"Snow"}
SomeConditions      == {"Dry hard surface", "Grass", "Snow"}
SomeValues          == {-600, 0, 600, 1140}

TakeoffPressureAlts == FormPressureAlts
TakeoffOats         == FormOats \cup ExtremeOats
TakeoffWeights      == FormWeights
TakeoffWinds        == FormWinds \cup StrongHeadwinds
TakeoffConditions   == SomeConditions

\* ---------------------------------------------------------------------------
\* @st.cache_data.  The key of an entry is the tuple of the call's arguments,
\* each with its type (Streamlit hashes the type with the value, so the int 0
\* and the numpy float 0.0 are different keys).  A call whose key is in the
\* table returns the stored value and does not run the body; any other call
\* runs the body and, unless it raised, stores what it returned.
\* ---------------------------------------------------------------------------
IntArg(i)   == <<"int", RatOf(i)>>
FloatArg(x) == <<"float64", x>>
StrArg(t)   == <<"str", t>>

\* mutant of CacheKey: only the first argument is hashed
CacheKeyFirstArg(args) == <<args[1]>>

CacheKey(args) == args

HasEntry(table, key) == \E e \in table : e.key = key
Entry(table, key)    == CHOOSE e \in table : e.key = key

\* the body of cached function fn on the arguments args, uncached
Body(fn, args) ==
    CASE fn = "compute_takeoff" ->
            compute_takeoff(args[1][2], args[2][2], args[3][2], args[4][2], args[5][2])
      [] fn = "compute_landing" ->
            compute_landing(args[1][2], args[2][2], args[3][2], args[4][2], args[5][2])
      [] fn = "compute_climb_rate" ->
            compute_climb_rate(args[1][2], args[2][2], args[3][2])
      [] fn = "compute_stall_speed" ->
            compute_stall_speed(args[1][2])
      [] fn = "compute_glide_distance" ->
            compute_glide_distance(args[1][2], args[2][2])
      [] fn = "compute_weight_balance" ->
            compute_weight_balance(args[1][2], args[2][2], args[3][2], args[4][2])

Raised(value) == value.kind = "raise"

\* F applied to the value of e, e evaluated once
Eager1(e, F(_)) == CHOOSE r \in {F(x) : x \in {e}} : TRUE

\* one call through the tables c of all functions: <<value, tables after>>.
\* An entry also records the arguments of the call that stored it (args is
\* history for the properties; the table is looked up by key alone).
CachedCall(c, fn, args) ==
    Eager1(CacheKey(args), LAMBDA key :
        IF HasEntry(c[fn], key)
        THEN <<Entry(c[fn], key).value, c>>
        ELSE Eager1(Body(fn, args), LAMBDA value :
                 IF Raised(value) THEN <<value, c>>
                 ELSE <<value,
                        [c EXCEPT ![fn] = @ \cup {[key |-> key, args |-> args,
                                                   value |-> value]}]>>))

\* ---------------------------------------------------------------------------
\* Single calls in a fresh process: one call per behaviour, the helpers
\* directly and the cached functions through their (empty) table.
\* ---------------------------------------------------------------------------
Returns(fn, args, value) ==
    /\ call = NoCall
    /\ call' = [fn |-> fn, args |-> args]
    /\ ret' = value
    /\ UNCHANGED <<cache, shown, presses>>

CallCached(fn, args, keyargs) ==
    /\ call = NoCall
    /\ call' = [fn |-> fn, args |-> args]
    /\ \E r \in {CachedCall(cache, fn, keyargs)} : ret' = r[1] /\ cache' = r[2]
    /\ UNCHANGED <<shown, presses>>

CallDensityAltitude ==
    \E pa \in FormPressureAlts \cup ExtremePressureAlts, oat \in FormOats \cup ExtremeOats :
        Returns("calculate_density_altitude", <<pa, oat>>,
                PyNum(calculate_density_altitude(RatOf(pa), RatOf(oat))))

CallAdjustForWind ==
    \E value \in SomeValues, wind \in -WindSpan..WindSpan :
        Returns("adjust_for_wind", <<value, wind>>,
                adjust_for_wind(PyInt(value), RatOf(wind)))

CallAdjustForRunwayCondition ==
    \E value \in SomeValues, cond \in FormConditions \cup OtherConditions :
        Returns("adjust_for_runway_condition", <<value, cond>>,
                adjust_for_runway_condition(PyInt(value), cond))

CallTakeoff ==
    \E pa \in TakeoffPressureAlts, oat \in TakeoffOats, w \in TakeoffWeights,
       wind \in TakeoffWinds, cond \in TakeoffConditions :
        CallCached("compute_takeoff", <<pa, oat, w, wind, cond>>,
                   <<IntArg(pa), IntArg(oat), IntArg(w), IntArg(wind), StrArg(cond)>>)

CallLanding ==
    \E pa \in FormPressureAlts, oat \in FormOats, w \in FormWeights \cup HeavyWeights,
       wind \in FormWinds, cond \in FormConditions \cup OtherConditions :
        CallCached("compute_landing", <<pa, oat, w, wind, cond>>,
                   <<IntArg(pa), IntArg(oat), IntArg(w), IntArg(wind), StrArg(cond)>>)

CallClimbRate ==
    \E pa \in FormPressureAlts \cup ExtremePressureAlts, oat \in FormOats \cup ExtremeOats,
       w \in FormWeights \cup ExtremeWeights :
        CallCached("compute_climb_rate", <<pa, oat, w>>,
                   <<IntArg(pa), IntArg(oat), IntArg(w)>>)

CallStallSpeed ==
    \E w \in FormWeightSteps :
        CallCached("compute_stall_speed", <<w>>, <<IntArg(w)>>)

CallGlideDistance ==
    \E h \in FormGlideHeights, wind \in FormWinds :
        CallCached("compute_glide_distance", <<h, wind>>, <<IntArg(h), IntArg(wind)>>)

\* the pilot weights at the ends of the range and those that put the total
\* on or next to a limit
NearLimit(total) ==
    total \in {MAX_LANDING_WEIGHT_LBS, MAX_LANDING_WEIGHT_LBS + 1,
               MAX_TAKEOFF_WEIGHT_LBS, MAX_TAKEOFF_WEIGHT_LBS + 1}

PilotsFor(fuel, hopper) ==
    {p \in FormPilots : p \in {100, 200, 300}
                        \/ NearLimit(BASE_EMPTY_WEIGHT_LBS + 6 * fuel + 8 * hopper + p)}

CallWeightBalance ==
    \E fuel \in FormFuels, hopper \in FormHoppers \cup {453, 278} :
      \E pilot \in PilotsFor(fuel, hopper) :
        CallCached("compute_weight_balance", <<BASE_EMPTY_WEIGHT_LBS, fuel, hopper, pilot>>,
                   <<IntArg(BASE_EMPTY_WEIGHT_LBS), IntArg(fuel), IntArg(hopper),
                     IntArg(pilot)>>)

Init ==
    /\ call = NoCall
    /\ ret = Nothing
    /\ cache = EmptyCache
    /\ shown = Nothing
    /\ presses = 0

CallNext ==
    \/ CallDensityAltitude
    \/ CallAdjustForWind
    \/ CallAdjustForRunwayCondition
    \/ CallTakeoff
    \/ CallLanding
    \/ CallClimbRate
    \/ CallStallSpeed
    \/ CallGlideDistance
    \/ CallWeightBalance

CallSpec == Init /\ [][CallNext]_vars

\* ---------------------------------------------------------------------------
\* The page.  A press of "Calculate Performance" reruns the script with the
\* widgets' values: the six calculations, then the climb chart's 60 calls of
\* compute_climb_rate at np.linspace(0, 12000, 60).  The tables live as long
\* as the process, across presses.
\* ---------------------------------------------------------------------------
MaxPresses == 2

CHART_TOP_FT == 12000
CHART_POINTS == 60

\* np.linspace(0, CHART_TOP_FT, CHART_POINTS)[i], i = 0 .. CHART_POINTS - 1
Linspace(i) == Frac(CHART_TOP_FT * i, CHART_POINTS - 1)

AppPressureAlts == {0, CHART_TOP_FT}
AppWeights      == {4000, MAX_LANDING_WEIGHT_LBS, MAX_TAKEOFF_WEIGHT_LBS}
AppWinds        == {0, 20}
AppOat          == 15
AppFuel         == 170
AppHopper       == 0
AppPilot        == 200
AppGlideHeight  == 1000
AppCondition    == "Dry hard surface"

CallsOfPress(pa, oat, w, wind, cond, fuel, hopper, pilot, height) ==
    << <<"compute_takeoff",
         <<IntArg(pa), IntArg(oat), IntArg(w), IntArg(wind), StrArg(cond)>> >>,
       <<"compute_landing",
         <<IntArg(pa), IntArg(oat), IntArg(w), IntArg(wind), StrArg(cond)>> >>,
       <<"compute_climb_rate", <<IntArg(pa), IntArg(oat), IntArg(w)>> >>,
       <<"compute_stall_speed", <<IntArg(w)>> >>,
       <<"compute_glide_distance", <<IntArg(height), IntArg(wind)>> >>,
       <<"compute_weight_balance",
         <<IntArg(BASE_EMPTY_WEIGHT_LBS), IntArg(fuel), IntArg(hopper), IntArg(pilot)>> >> >>
    \o [i \in 1..CHART_POINTS |->
          <<"compute_climb_rate", <<FloatArg(Linspace(i - 1)), IntArg(oat), IntArg(w)>> >>]

\* one call of the run: the tables and the record of calls after it
RunCall(st, fn, args) ==
    Eager1(CachedCall(st.cache, fn, args), LAMBDA r :
        [cache |-> r[2],
         calls |-> Append(st.calls, [fn |-> fn, args |-> args, value |-> r[1],
                                     hit |-> HasEntry(st.cache[fn], CacheKey(args))])])

\* the calls lo .. hi of the run, in order (the first half, then the second);
\* an exception ends the run
RECURSIVE RunCalls(_, _, _, _)
RunCalls(st, calls, lo, hi) ==
    IF lo > hi THEN st
    ELSE IF lo = hi
         THEN (IF st.calls # << >> /\ Raised(st.calls[Len(st.calls)].value) THEN st
               ELSE RunCall(st, calls[lo][1], calls[lo][2]))
    ELSE Eager1(RunCalls(st, calls, lo, (lo + hi) \div 2), LAMBDA half :
             RunCalls(half, calls, (lo + hi) \div 2 + 1, hi))

PressCalculate ==
    \E pa \in AppPressureAlts, w \in AppWeights, wind \in AppWinds :
        /\ presses < MaxPresses
        /\ \E calls \in {CallsOfPress(pa, AppOat, w, wind, AppCondition, AppFuel,
                                      AppHopper, AppPilot, AppGlideHeight)} :
           \E st \in {RunCalls([cache |-> cache, calls |-> << >>], calls, 1, Len(calls))} :
               /\ cache' = st.cache
               /\ shown' = [kind |-> "results", calls |-> st.calls]
               /\ call' = [fn |-> st.calls[Len(st.calls)].fn,
                           args |-> st.calls[Len(st.calls)].args]
               /\ ret' = st.calls[Len(st.calls)].value
        /\ presses' = presses + 1

Next == PressCalculate

Spec == Init /\ [][Next]_vars

\* ---------------------------------------------------------------------------
\* Properties of single calls (CallSpec).
\* ---------------------------------------------------------------------------
Called(fn) == call.fn = fn
Arg(i)     == call.args[i]

Positive(v)    == IsReal(v) /\ v.c.s > 0
NonNegative(v) == IsReal(v) /\ v.c.s >= 0
\* both items of pair a are <= the items of pair b
PairLe(a, b) == PyLe(a.items[1], b.items[1]) /\ PyLe(a.items[2], b.items[2])
PairEq(a, b) == PyEq(a.items[1], b.items[1]) /\ PyEq(a.items[2], b.items[2])
PairLt(a, b) == PyLt(a.items[1], b.items[1]) /\ PyLt(a.items[2], b.items[2])

Takeoff(pa, oat, w, wind, cond) ==
    compute_takeoff(RatOf(pa), RatOf(oat), RatOf(w), RatOf(wind), cond)
Landing(pa, oat, w, wind, cond) ==
    compute_landing(RatOf(pa), RatOf(oat), RatOf(w), RatOf(wind), cond)
DensityAltitude(pa, oat) == calculate_density_altitude(RatOf(pa), RatOf(oat))

\* C1: compute_landing with a weight of 8000 or more returns what it returns
\* for 8000; a weight below 8000 is used unchanged, the result being
\* base * (w / 8000) * (1 + 0.07 da / 1000) * wind factor * runway factor.
C1_LandingClampsWeight ==
    Called("compute_landing") =>
        LET da == DensityAltitude(Arg(1), Arg(2))
            factors(w) == RatMul(RatMul(RatMul(Frac(w, MAX_LANDING_WEIGHT_LBS),
                                               da_factor(da)),
                                        wind_factor(RatOf(Arg(4)))),
                                 runway_factor(Arg(5)))
        IN  /\ Arg(3) >= MAX_LANDING_WEIGHT_LBS =>
                   PairEq(ret, Landing(Arg(1), Arg(2), MAX_LANDING_WEIGHT_LBS, Arg(4), Arg(5)))
            /\ Arg(3) < MAX_LANDING_WEIGHT_LBS =>
                   /\ PyEq(ret.items[1],
                           PyMul(PyInt(BASE_LANDING_GROUND_ROLL_FT), factors(Arg(3))))
                   /\ PyEq(ret.items[2],
                           PyMul(PyInt(BASE_LANDING_TO_50FT_FT), factors(Arg(3))))

\* a landing call at max landing weight + 1000 that returned two positive distances
C1_Witness ==
    /\ Called("compute_landing")
    /\ Arg(3) = MAX_LANDING_WEIGHT_LBS + 1000
    /\ Positive(ret.items[1]) /\ Positive(ret.items[2])

\* C2: every call of compute_climb_rate completes and returns a number >= 0.
C2_ClimbRateNonNegative ==
    Called("compute_climb_rate") => NonNegative(ret)

\* C3 as claimed: for pressure altitude >= 0, weight in [4000, 9400] and any
\* OAT, a call of compute_takeoff that differs in one input returns distances
\* that are no smaller when its density altitude or its weight is higher, and
\* no larger when its headwind is larger (both headwinds >= 0).
C3_TakeoffMonotoneAnyOat ==
    Called("compute_takeoff") =>
        LET pa == Arg(1)  oat == Arg(2)  w == Arg(3)  wind == Arg(4)  cond == Arg(5)
            da == DensityAltitude(pa, oat)
        IN  /\ \A w2 \in TakeoffWeights :
                   w2 >= w => PairLe(ret, Takeoff(pa, oat, w2, wind, cond))
            /\ \A pa2 \in TakeoffPressureAlts :
                   RatLe(da, DensityAltitude(pa2, oat))
                       => PairLe(ret, Takeoff(pa2, oat, w, wind, cond))
            /\ \A oat2 \in TakeoffOats :
                   RatLe(da, DensityAltitude(pa, oat2))
                       => PairLe(ret, Takeoff(pa, oat2, w, wind, cond))
            /\ \A wind2 \in TakeoffWinds :
                   (wind >= 0 /\ wind2 >= wind)
                       => PairLe(Takeoff(pa, oat, w, wind2, cond), ret)

\* C3 amended: the distances are non-decreasing in density altitude for any
\* OAT; they are non-decreasing in weight and non-increasing in headwind
\* (headwinds >= 0) when the density-altitude factor 1 + 0.07 da / 1000 of
\* the two calls is not negative.
C3_TakeoffMonotone ==
    Called("compute_takeoff") =>
        LET pa == Arg(1)  oat == Arg(2)  w == Arg(3)  wind == Arg(4)  cond == Arg(5)
            da == DensityAltitude(pa, oat)
            sane == RatLe(RatZero, da_factor(da))
        IN  /\ \A w2 \in TakeoffWeights :
                   (sane /\ w2 >= w) => PairLe(ret, Takeoff(pa, oat, w2, wind, cond))
            /\ \A pa2 \in TakeoffPressureAlts :
                   RatLe(da, DensityAltitude(pa2, oat))
                       => PairLe(ret, Takeoff(pa2, oat, w, wind, cond))
            /\ \A oat2 \in TakeoffOats :
                   RatLe(da, DensityAltitude(pa, oat2))
                       => PairLe(ret, Takeoff(pa, oat2, w, wind, cond))
            /\ \A wind2 \in TakeoffWinds :
                   (sane /\ wind >= 0 /\ wind2 >= wind)
                       => PairLe(Takeoff(pa, oat, w, wind2, cond), ret)

\* a takeoff call with a positive density-altitude factor for which a heavier
\* call, a call at a higher density altitude and a call with more headwind
\* return distances that strictly differ
C3_Witness ==
    /\ Called("compute_takeoff")
    /\ RatLt(RatZero, da_factor(DensityAltitude(Arg(1), Arg(2))))
    /\ Arg(4) >= 0
    /\ \E w2 \in TakeoffWeights :
           w2 > Arg(3) /\ PairLt(ret, Takeoff(Arg(1), Arg(2), w2, Arg(4), Arg(5)))
    /\ \E oat2 \in TakeoffOats :
           oat2 > Arg(2) /\ PairLt(ret, Takeoff(Arg(1), oat2, Arg(3), Arg(4), Arg(5)))
    /\ \E wind2 \in TakeoffWinds :
           wind2 > Arg(4) /\ PairLt(Takeoff(Arg(1), Arg(2), Arg(3), wind2, Arg(5)), ret)

\* C4: at baseline conditions (pressure altitude 0, OAT 15, weight 9400,
\* wind 0, "Dry hard surface") calculate_density_altitude returns 0 and
\* compute_takeoff returns ground roll 1140 and to-50ft 2600, each of the four
\* adjustment steps leaving its value unchanged.
Baseline == <<0, 15, MAX_TAKEOFF_WEIGHT_LBS, 0, "Dry hard surface">>

C4_BaselineTakeoff ==
    /\ (Called("calculate_density_altitude") /\ call.args = <<Baseline[1], Baseline[2]>>)
           => PyEq(ret, PyInt(0))
    /\ (Called("compute_takeoff") /\ call.args = Baseline) =>
           /\ PyEq(ret.items[1], PyInt(1140))
           /\ PyEq(ret.items[2], PyInt(2600))
           /\ \A base \in {BASE_TAKEOFF_GROUND_ROLL_FT, BASE_TAKEOFF_TO_50FT_FT} :
                  LET v0 == PyInt(base)
                      v1 == adjust_for_weight(v0, RatOf(Arg(3)),
                                              RatOf(MAX_TAKEOFF_WEIGHT_LBS), Exp15)
                      v2 == adjust_for_da(v1, DensityAltitude(Arg(1), Arg(2)))
                      v3 == adjust_for_wind(v2, RatOf(Arg(4)))
                      v4 == adjust_for_runway_condition(v3, Arg(5))
                  IN  PyEq(v1, v0) /\ PyEq(v2, v1) /\ PyEq(v3, v2) /\ PyEq(v4, v3)
                      /\ PyEq(v4, IF base = BASE_TAKEOFF_GROUND_ROLL_FT
                                  THEN ret.items[1] ELSE ret.items[2])

\* the takeoff call at baseline conditions has returned
C4_Witness ==
    /\ Called("compute_takeoff") /\ call.args = Baseline
    /\ ret.kind = "tuple"

\* C5: compute_weight_balance returns total = empty + 6.0 fuel + 8.0 hopper +
\* pilot; the status starts "Within limits" when total <= 9400 and
\* "Overweight!" when total > 9400, and " (Exceeds max landing weight)" is
\* appended exactly when total > 8000.
C5_WeightBalance ==
    Called("compute_weight_balance") =>
        LET total  == Arg(1) + 6 * Arg(2) + 8 * Arg(3) + Arg(4)
            status == ret.items[2]
            limits == IF total > 9400 THEN "Overweight!" ELSE "Within limits"
        IN  /\ PyEq(ret.items[1], PyInt(total))
            /\ status = IF total > 8000
                        THEN <<limits, " (Exceeds max landing weight)">>
                        ELSE <<limits>>
            /\ total = 9400 =>
                   status = <<"Within limits", " (Exceeds max landing weight)">>

\* a call whose total is exactly the max takeoff weight
C5_Witness ==
    /\ Called("compute_weight_balance")
    /\ PyEq(ret.items[1], PyInt(MAX_TAKEOFF_WEIGHT_LBS))

\* C6: adjust_for_wind multiplies by max(1 - 0.1 wind / 9, 0.5): the factor is
\* at least 0.5, it is exactly 0.5 for every headwind >= 45, and a value >= 0
\* comes back at least half as large.
C6_WindFloor ==
    Called("adjust_for_wind") =>
        LET value == Arg(1)
            wind  == Arg(2)
            claimed == IF 90 - wind > 45 THEN Frac(90 - wind, 90) ELSE Frac(45, 90)
        IN  /\ PyEq(ret, PyMul(PyInt(value), claimed))
            /\ RatLe(RatHalf, wind_factor(RatOf(wind)))
            /\ wind >= 45 => /\ RatEq(wind_factor(RatOf(wind)), RatHalf)
                             /\ PyEq(ret, PyMul(PyInt(value), RatHalf))
            /\ value >= 0 => PyLe(PyMul(PyInt(value), RatHalf), ret)

\* a positive distance adjusted for a headwind above 45 kts
C6_Witness ==
    /\ Called("adjust_for_wind")
    /\ Arg(1) > 0 /\ Arg(2) > 45
    /\ Positive(ret)

\* C7: for inputs inside the form's ranges, every factor compute_takeoff and
\* compute_landing multiply by is > 0 and so are both returned distances.
InForm(pa, oat, w, wind, cond) ==
    /\ pa \in 0..20000
    /\ oat \in -30..50
    /\ w \in 4000..9400
    /\ wind \in -20..20
    /\ cond \in DOMAIN RUNWAY_CONDITION_FACTORS

C7_FactorsPositive ==
    ((Called("compute_takeoff") \/ Called("compute_landing"))
        /\ InForm(Arg(1), Arg(2), Arg(3), Arg(4), Arg(5))) =>
        /\ Positive(IF Called("compute_takeoff")
                    THEN PyPow(Frac(Arg(3), MAX_TAKEOFF_WEIGHT_LBS), Exp15)
                    ELSE PyPow(RatDiv(landing_weight(RatOf(Arg(3))),
                                      RatOf(MAX_LANDING_WEIGHT_LBS)), ExpLinear))
        /\ RatLt(RatZero, da_factor(DensityAltitude(Arg(1), Arg(2))))
        /\ RatLt(RatZero, wind_factor(RatOf(Arg(4))))
        /\ RatLt(RatZero, runway_factor(Arg(5)))
        /\ Positive(ret.items[1])
        /\ Positive(ret.items[2])

\* a takeoff call at the form's lowest density altitude and strongest headwind
C7_Witness ==
    /\ Called("compute_takeoff")
    /\ Arg(1) = 0 /\ Arg(2) = -30 /\ Arg(4) = 20
    /\ InForm(Arg(1), Arg(2), Arg(3), Arg(4), Arg(5))
    /\ Positive(ret.items[1])

\* C8: adjust_for_runway_condition returns value * factor, the factor being
\* the table's entry for a label of the table and 1.40 for any other label;
\* "Dry hard surface" returns the value unchanged and no factor is below 1.
C8_RunwayFactor ==
    Called("adjust_for_runway_condition") =>
        LET value == PyInt(Arg(1))
            label == Arg(2)
        IN  /\ label \in DOMAIN RUNWAY_CONDITION_FACTORS
                   => PyEq(ret, PyMul(value, RUNWAY_CONDITION_FACTORS[label]))
            /\ label \notin DOMAIN RUNWAY_CONDITION_FACTORS
                   => PyEq(ret, PyMul(value, Frac(140, 100)))
            /\ label = "Dry hard surface" => PyEq(ret, value)
            /\ Arg(1) >= 0 => PyLe(value, ret)
            /\ RatLe(RatOne, runway_factor(label))

\* a positive distance adjusted for a label that is not in the table
C8_Witness ==
    /\ Called("adjust_for_runway_condition")
    /\ Arg(2) \notin DOMAIN RUNWAY_CONDITION_FACTORS
    /\ Positive(ret)

\* C9: compute_stall_speed is non-decreasing in weight over [4000, 9400], its
\* square is 68^2 * w / 8000, and at 8000 it returns exactly 68.
C9_StallSpeedMonotone ==
    Called("compute_stall_speed") =>
        /\ \A w2 \in FormWeightSteps :
               /\ Arg(1) <= w2 => PyLe(ret, compute_stall_speed(RatOf(w2)))
               /\ w2 <= Arg(1) => PyLe(compute_stall_speed(RatOf(w2)), ret)
        /\ NonNegative(ret)
        /\ RatEq(RealSquare(ret), Frac(68 * 68 * Arg(1), 8000))
        /\ Arg(1) = MAX_LANDING_WEIGHT_LBS => PyEq(ret, PyInt(68))

\* the call at the max landing weight has returned
C9_Witness ==
    /\ Called("compute_stall_speed")
    /\ Arg(1) = MAX_LANDING_WEIGHT_LBS
    /\ Positive(ret)

\* ---------------------------------------------------------------------------
\* Properties of the page (Spec).
\* ---------------------------------------------------------------------------
\* C10: memoization is unobservable.  Every call of the last run got the value
\* the function's body gives for its arguments, whether the table supplied it
\* or not; a table holds one entry per key, and every entry holds the value
\* the body gives for the arguments that stored it, so none is ever stale.
C10_MemoizationUnobservable ==
    /\ shown.kind = "results" =>
           \A i \in 1..Len(shown.calls) :
               shown.calls[i].value = Body(shown.calls[i].fn, shown.calls[i].args)
    /\ \A fn \in CachedFunctions :
           /\ \A e \in cache[fn] : e.value = Body(fn, e.args)
           /\ \A e1, e2 \in cache[fn] : e1.key = e2.key => e1 = e2

\* a run in which the table supplied some calls (the chart's among them) and
\* the body was run for others
C10_Witness ==
    /\ shown.kind = "results"
    /\ Len(shown.calls) = 6 + CHART_POINTS
    /\ \E i \in 1..Len(shown.calls) : shown.calls[i].hit /\ i > 6
    /\ \E i \in 1..Len(shown.calls) : ~shown.calls[i].hit
====
